---- MODULE Spec2Model ----
(***************************************************************************)
(* Model of src/src/vectras/agents/github.py: the GitHubIntegration        *)
(* methods (create_branch, commit_files, _create_tree_with_changes,        *)
(* create_pull_request), the tool functions built on them and the remote   *)
(* repository they talk to.  Every awaited HTTP request is one atomic      *)
(* step of the calling process; processes interleave between requests.     *)
(***************************************************************************)
EXTENDS Integers, Sequences, FiniteSets, TLC

\* ---------------------------------------------------------------- bounds
\* Total number of tool invocations in a run.
MaxCalls == 2
\* Longest list of file paths handed to commit_files.
MaxFiles == 2
\* Most entries in the status of the local working tree.
MaxLines == 2

\* Concurrent requests served by the process (asyncio tasks).
Procs == {"p1", "p2"}
\* Branch names used as inputs; "main" exists initially, "feat" does not.
BranchNames == {"main", "feat"}
\* File paths supplied by callers: "a" is in the initial tree, "n" is not.
FilePaths == {"a", "n"}
\* Local file contents; a blob's sha is the hash of its content, so the
\* content stands for the sha.
Contents == {"c1", "c2"}
\* Outcome of a local read that raises (missing or unreadable file).
Unreadable == "unreadable"
\* Transport-level outcomes of one request: "none", the service answers;
\* "neterr", the request never reaches the service (httpx raises); "lost",
\* the service processes it and the response never arrives (httpx raises);
\* "http5xx", the service refuses it with a 5xx answer.
AllFaults == {"none", "neterr", "lost", "http5xx"}

RECURSIVE SeqsUpTo(_, _)
SeqsUpTo(S, n) ==
    IF n = 0 THEN {<<>>}
    ELSE LET shorter == SeqsUpTo(S, n - 1)
         IN shorter \cup {Append(s, x) : s \in {t \in shorter : Len(t) = n - 1}, x \in S}

FileLists == SeqsUpTo(FilePaths, MaxFiles)

VARIABLES
    configured,  \* github_integration is not None
    refs,        \* remote: branch name -> head commit sha
    commits,     \* remote: set of commit objects
    trees,       \* remote: set of tree objects
    blobs,       \* remote: set of blob shas
    prs,         \* remote: sequence of pull requests, number = index
    proc,        \* per process: the running tool, its locals and requests
    calls        \* number of tool invocations started

vars == <<configured, refs, commits, trees, blobs, prs, proc, calls>>

\* ------------------------------------------------------- remote repository
\* Tree objects are kept flattened: the set of non-directory entries with
\* their full paths.  Directory entries are derived from the paths.
NoEntry == [path |-> "", mode |-> "", type |-> "none", sha |-> ""]
PathOrder == <<"a", "d", "d/b", "n", "sub">>
InitialTree ==
    { [path |-> "a", mode |-> "100755", type |-> "blob", sha |-> "c0"],
      [path |-> "d/b", mode |-> "100644", type |-> "blob", sha |-> "c0"],
      [path |-> "sub", mode |-> "160000", type |-> "commit", sha |-> "s0"] }

EntryAt(t, path) ==
    IF \E e \in t : e.path = path THEN CHOOSE e \in t : e.path = path
    ELSE IF path = "d" /\ \E e \in t : e.path = "d/b"
         THEN [path |-> "d", mode |-> "040000", type |-> "tree", sha |-> "dir"]
         ELSE NoEntry

\* GET git/trees/{sha}?recursive=1: every entry, directories included, by path.
TreeListing(t) ==
    SelectSeq([k \in 1..Len(PathOrder) |-> EntryAt(t, PathOrder[k])],
              LAMBDA e : e.type # "none")

\* POST git/trees without base_tree: the tree holds the submitted entries; of
\* two entries with one path the service keeps the later.
StoredTree(entries) ==
    { entries[k] : k \in { j \in 1..Len(entries) :
                           \A l \in (j + 1)..Len(entries) : entries[l].path # entries[j].path } }

\* Objects are content-addressed: a sha is the hash of the object, so the
\* object stands for its sha.  NoTree and NoCommit stand for None.
NoTree == {}
NoCommit == [message |-> "", tree |-> NoTree, parents |-> <<>>, n |-> 0 - 1]

RECURSIVE IsAncestor(_, _)
\* a is c or an ancestor of c (c is a descendant of a).
IsAncestor(a, c) ==
    IF c = a THEN TRUE
    ELSE IF c.parents = <<>> THEN FALSE
    ELSE IsAncestor(a, c.parents[1])

\* An answer of the service: the status, the value of a 2xx answer, and the
\* value the client is left with when there is none.
Answer(status, val, none) ==
    [status |-> status, val |-> IF status \in {200, 201} THEN val ELSE none,
     none |-> none]

\* What the service does with a request under a fault: "neterr" never reaches
\* it, "http5xx" is refused by it, "none" and "lost" are processed.
ServiceAnswer(fault, answer) ==
    IF fault = "neterr" THEN [status |-> 0, val |-> answer.none]
    ELSE IF fault = "http5xx" THEN [status |-> 500, val |-> answer.none]
    ELSE [status |-> answer.status, val |-> answer.val]

\* What the client receives: nothing (status 0, httpx raises) when the request
\* or its response is lost.
ClientSees(fault, answer) ==
    IF fault = "lost" THEN [status |-> 0, val |-> answer.none]
    ELSE ServiceAnswer(fault, answer)

\* GET git/ref/heads/{name} and GET git/refs/heads/{name}
RemoteGetRef(name) ==
    IF name \in DOMAIN refs THEN Answer(200, refs[name], NoCommit)
    ELSE Answer(404, NoCommit, NoCommit)

\* POST git/refs: 422 when the ref exists or the sha names no object.
RemoteCreateRef(data) ==
    IF data.ref \notin DOMAIN refs /\ data.sha \in commits
    THEN Answer(201, data.sha, NoCommit)
    ELSE Answer(422, NoCommit, NoCommit)

\* PATCH git/refs/heads/{name}: 422 when the ref is missing, the sha names no
\* object, or the update is not a fast-forward and force is not set.
RemoteUpdateRef(name, data) ==
    IF /\ name \in DOMAIN refs
       /\ data.sha \in commits
       /\ (data.force \/ IsAncestor(refs[name], data.sha))
    THEN Answer(200, data.sha, NoCommit)
    ELSE Answer(422, NoCommit, NoCommit)

SetRef(name, sha) ==
    [n \in DOMAIN refs \cup {name} |-> IF n = name THEN sha ELSE refs[n]]

\* GET git/commits/{sha}
RemoteGetCommit(sha) ==
    IF sha \in commits THEN Answer(200, sha.tree, NoTree)
    ELSE Answer(404, NoTree, NoTree)

\* GET git/trees/{sha}?recursive=1
RemoteGetTree(sha) ==
    IF sha \in trees THEN Answer(200, TreeListing(sha), <<>>)
    ELSE Answer(404, <<>>, <<>>)

\* base64.b64encode(content) and the service's decoding of it.
Base64Encode(content) == <<"base64", content>>
Base64Decode(text) == text[2]

\* POST git/blobs: the sha is the hash of the decoded content.
RemoteCreateBlob(data) ==
    Answer(201, Base64Decode(data.content), "")

\* POST git/trees: 422 when the entry list is empty or an entry names a blob
\* that does not exist.
RemoteCreateTree(data) ==
    IF /\ data.tree # <<>>
       /\ \A k \in 1..Len(data.tree) :
             data.tree[k].type = "blob" => data.tree[k].sha \in blobs
    THEN Answer(201, StoredTree(data.tree), NoTree)
    ELSE Answer(422, NoTree, NoTree)

\* POST git/commits: 422 when the tree or a parent does not exist.  The sha
\* covers tree, parents, message and the timestamp: same says whether the
\* timestamp equals that of the latest existing commit with the same data.
RemoteCreateCommit(data, same) ==
    LET existing == { c \in commits : /\ c.message = data.message
                                      /\ c.tree = data.tree
                                      /\ c.parents = data.parents }
    IN IF /\ data.tree \in trees
          /\ \A k \in 1..Len(data.parents) : data.parents[k] \in commits
       THEN Answer(201,
                   [message |-> data.message, tree |-> data.tree,
                    parents |-> data.parents,
                    n |-> IF same /\ existing # {}
                          THEN Cardinality(existing) - 1
                          ELSE Cardinality(existing)],
                   NoCommit)
       ELSE Answer(422, NoCommit, NoCommit)

\* POST pulls: 422 when the head or base branch does not exist, the head has
\* nothing to merge, or the head already has a pull request.
RemoteCreatePull(data) ==
    IF /\ data.head \in DOMAIN refs
       /\ data.base \in DOMAIN refs
       /\ ~IsAncestor(refs[data.head], refs[data.base])
       /\ \A k \in 1..Len(prs) : prs[k].head # data.head
    THEN Answer(201, Len(prs) + 1, 0)
    ELSE Answer(422, 0, 0)

\* One request as the client issued it and the answer it received.
Req(verb, url, body, status) ==
    [verb |-> verb, url |-> url, body |-> body, status |-> status]
Logged(r, q) == [r EXCEPT !.reqs = Append(@, q)]

\* --------------------------------------------------- get_current_changes
\* Text is a sequence of one-character strings.
Whitespace == {" ", "\n"}
UpperCase == <<"A", "D", "E", "F", "L", "M", "R", "T">>
LowerCase == <<"a", "d", "e", "f", "l", "m", "r", "t">>

RECURSIVE LStrip(_)
LStrip(s) == IF s # <<>> /\ Head(s) \in Whitespace THEN LStrip(Tail(s)) ELSE s
RECURSIVE RStrip(_)
RStrip(s) ==
    IF s # <<>> /\ s[Len(s)] \in Whitespace THEN RStrip(SubSeq(s, 1, Len(s) - 1)) ELSE s
\* str.strip()
Strip(s) == RStrip(LStrip(s))

RECURSIVE Split(_, _)
\* str.split(sep) for a one-character separator.
Split(s, sep) ==
    IF \A k \in 1..Len(s) : s[k] # sep THEN <<s>>
    ELSE LET k == CHOOSE k \in 1..Len(s) : s[k] = sep /\ \A j \in 1..(k - 1) : s[j] # sep
         IN <<SubSeq(s, 1, k - 1)>> \o Split(SubSeq(s, k + 1, Len(s)), sep)

\* s[:n] and s[n:]
SliceTo(s, n) == IF Len(s) <= n THEN s ELSE SubSeq(s, 1, n)
SliceFrom(s, n) == IF Len(s) <= n THEN <<>> ELSE SubSeq(s, n + 1, Len(s))
\* str.startswith(prefix)
StartsWith(s, prefix) == Len(s) >= Len(prefix) /\ SubSeq(s, 1, Len(prefix)) = prefix
\* str.lower()
Lower(s) ==
    [k \in 1..Len(s) |->
        IF \E u \in 1..Len(UpperCase) : UpperCase[u] = s[k]
        THEN LowerCase[CHOOSE u \in 1..Len(UpperCase) : UpperCase[u] = s[k]]
        ELSE s[k]]
\* sub in s
Contains(sub, s) ==
    \E k \in 0..(Len(s) - Len(sub)) : SubSeq(s, k + 1, k + Len(sub)) = sub

\* files = result.stdout.strip().split('\n') if result.stdout.strip() else []
StatusLines(stdout) == IF Strip(stdout) # <<>> THEN Split(Strip(stdout), "\n") ELSE <<>>

\* The loop over the lines: status = line[:2].strip(), filename = line[3:].
RECURSIVE ChangedFiles(_)
ChangedFiles(files) ==
    IF files = <<>> THEN <<>>
    ELSE LET line == Head(files)
             status == Strip(SliceTo(line, 2))
             filename == SliceFrom(line, 3)
         IN IF /\ Strip(line) # <<>>
               /\ \/ status \in {<<"M">>, <<"A">>, <<"D">>}
                  \/ StartsWith(line, <<"?", "?">>)
            THEN <<filename>> \o ChangedFiles(Tail(files))
            ELSE ChangedFiles(Tail(files))

AnyFile(changed_files, words) ==
    \E k \in 1..Len(changed_files) :
        \E w \in words : Contains(w, Lower(changed_files[k]))

\* The local working tree as "git status --porcelain" reports it: per changed
\* path the two status letters XY.  A renamed path is printed "old -> new".
StatusCodes ==
    { <<" ", "M">>, <<"M", " ">>, <<"M", "M">>, <<"A", " ">>, <<" ", "D">>,
      <<"?", "?">>, <<"R", " ">> }
StatusPaths ==
    { <<"l", "i", "n", "t", "_", "f", "i", "x", ".", "p", "y">>,
      <<"F", "o", "r", "m", "a", "t", ".", "c">>,
      <<"a", "_", "t", "e", "s", "t", ".", "p", "y">>,
      <<"R", "E", "A", "D", "M", "E">>,
      <<"d", "o", "c", "s", "/", "x">>,
      <<"m", "a", "i", "n", ".", "p", "y">> }
WorkTrees ==
    { es \in SeqsUpTo([code : StatusCodes, path : StatusPaths], MaxLines) :
        \A j, k \in 1..Len(es) : j # k => es[j].path # es[k].path }
RECURSIVE Porcelain(_)
\* stdout of "git status --porcelain": "XY path\n" per entry.
Porcelain(es) ==
    IF es = <<>> THEN <<>>
    ELSE Head(es).code \o <<" ">>
         \o (IF Head(es).code = <<"R", " ">> THEN <<"o", " ", "-", ">", " ">> ELSE <<>>)
         \o Head(es).path \o <<"\n">> \o Porcelain(Tail(es))

NoDetails == [branch_name |-> "", commit_msg |-> "", pr_title |-> ""]
\* Mutant: the test rule is tried before the linting rule.
InferDetails_TestFirst(changed_files) ==
    IF AnyFile(changed_files, {<<"t", "e", "s", "t">>})
    THEN [branch_name |-> "feat-testing", commit_msg |-> "feat(testing): add test improvements",
          pr_title |-> "Add test improvements"]
    ELSE IF AnyFile(changed_files, {<<"l", "i", "n", "t">>, <<"f", "o", "r", "m", "a", "t">>})
    THEN [branch_name |-> "fix-linting", commit_msg |-> "fix(linting): auto-fix linting issues",
          pr_title |-> "Auto-fix linting issues"]
    ELSE IF AnyFile(changed_files, {<<"d", "o", "c">>, <<"r", "e", "a", "d", "m", "e">>})
    THEN [branch_name |-> "docs-update", commit_msg |-> "docs: update documentation",
          pr_title |-> "Update documentation"]
    ELSE [branch_name |-> "fix-changes", commit_msg |-> "fix: resolve issues",
          pr_title |-> "Fix issues"]
\* "Infer change type from file names": branch name (without its timestamp),
\* commit message and PR title.
InferDetails(changed_files) ==
    IF AnyFile(changed_files, {<<"l", "i", "n", "t">>, <<"f", "o", "r", "m", "a", "t">>})
    THEN [branch_name |-> "fix-linting", commit_msg |-> "fix(linting): auto-fix linting issues",
          pr_title |-> "Auto-fix linting issues"]
    ELSE IF AnyFile(changed_files, {<<"t", "e", "s", "t">>})
    THEN [branch_name |-> "feat-testing", commit_msg |-> "feat(testing): add test improvements",
          pr_title |-> "Add test improvements"]
    ELSE IF AnyFile(changed_files, {<<"d", "o", "c">>, <<"r", "e", "a", "d", "m", "e">>})
    THEN [branch_name |-> "docs-update", commit_msg |-> "docs: update documentation",
          pr_title |-> "Update documentation"]
    ELSE [branch_name |-> "fix-changes", commit_msg |-> "fix: resolve issues",
          pr_title |-> "Fix issues"]

\* ------------------------------------------------------------ client code
\* Locals of a process that runs no tool yet.  blob_shas is history: per
\* supplied file, in order, the blob sha created for it or "skipped".
InitProc ==
    [pc |-> "idle", tool |-> "none",
     branch_name |-> "main", base_branch |-> "main", files |-> <<>>,
     commit_message |-> "m",
     sha |-> NoCommit, current_commit_sha |-> NoCommit,
     current_tree_sha |-> NoTree,
     tree_entries |-> <<>>, i |-> 1, blob_shas |-> <<>>,
     new_tree_sha |-> NoTree, new_commit_sha |-> NoCommit,
     branch_created |-> "none", files_committed |-> "none", pr_data |-> "none",
     out |-> "none", reqs |-> <<>>, response |-> "none",
     worktree |-> <<>>, stdout |-> <<>>, changed_files |-> <<>>,
     details |-> NoDetails]

\* Mutant: the operation has no handler; the exception leaves it.
ExceptException_Missing(raised, r, recovered) ==
    IF raised THEN [r EXCEPT !.pc = "done", !.out = "raised"] ELSE recovered
\* "except Exception as e:" around the body of an operation: when the body
\* raised, the operation continues as the handler says (recovered).
ExceptException(raised, r, recovered) == recovered

\* Mutant: raise_for_status() is not called; only a lost request raises.
RaisesForStatus_Omitted(status) == status = 0
\* response.raise_for_status(); a lost request raises in client.get itself.
RaisesForStatus(status) == status = 0 \/ status >= 400

\* Mutant: list_branches lacks the guard.
NotConfiguredGuard_Missing(t) ==
    t \in {"create_branch", "commit_files", "create_pull_request",
           "create_complete_pr_workflow", "get_current_changes",
           "get_repository_status"}
\* The tools that start with "if not github_integration: return ...".
NotConfiguredGuard(t) ==
    t \in {"create_branch", "commit_files", "create_pull_request",
           "create_complete_pr_workflow", "list_branches",
           "get_current_changes", "get_repository_status"}

\* Mutant: step 2 is started whatever step 1 returned.
WorkflowAfterBranch_Unchecked(r, ok) == [r EXCEPT !.pc = "cf_getref"]
\* create_complete_pr_workflow after step 1.
WorkflowAfterBranch(r, ok) ==
    IF ~ok THEN [r EXCEPT !.pc = "done", !.out = "branch_failed"]
    ELSE [r EXCEPT !.pc = "cf_getref"]

\* Mutant: step 3 is started whatever step 2 returned.
WorkflowAfterCommit_Unchecked(r, ok) == [r EXCEPT !.pc = "pr_post"]
\* create_complete_pr_workflow after step 2.
WorkflowAfterCommit(r, ok) ==
    IF ~ok THEN [r EXCEPT !.pc = "done", !.out = "commit_failed"]
    ELSE [r EXCEPT !.pc = "pr_post"]

\* create_complete_pr_workflow after step 3.
WorkflowAfterPull(r, ok) ==
    [r EXCEPT !.pc = "done", !.out = IF ok THEN "workflow_success" ELSE "pr_failed"]

\* GitHubIntegration.create_branch returns ok to its caller.
ReturnCreateBranch(r, ok) ==
    LET r1 == [r EXCEPT !.branch_created = IF ok THEN "True" ELSE "False"]
    IN IF r.tool = "create_branch"
       THEN [r1 EXCEPT !.pc = "done",
                       !.out = IF ok THEN "branch_created" ELSE "branch_failed"]
       ELSE WorkflowAfterBranch(r1, ok)

\* GitHubIntegration.commit_files returns ok to its caller.
ReturnCommitFiles(r, ok) ==
    LET r1 == [r EXCEPT !.files_committed = IF ok THEN "True" ELSE "False"]
    IN IF r.tool = "commit_files"
       THEN [r1 EXCEPT !.pc = "done",
                       !.out = IF ok THEN "committed" ELSE "commit_failed"]
       ELSE WorkflowAfterCommit(r1, ok)

\* Mutant: the per-file handler is missing; the exception reaches the handler
\* of _create_tree_with_changes, which returns None.
ExceptContinue_Aborts(raised, r, continued) ==
    IF raised THEN ReturnCommitFiles(r, FALSE) ELSE continued
\* "except Exception as e: ... continue" inside the loop over the files: when
\* the iteration raised, the loop goes on with the next file.
ExceptContinue(raised, r, continued) == continued

\* GitHubIntegration.create_pull_request returns the PR (ok) or None.
ReturnCreatePullRequest(r, ok) ==
    LET r1 == [r EXCEPT !.pr_data = IF ok THEN "PR" ELSE "None"]
    IN IF r.tool = "create_pull_request"
       THEN [r1 EXCEPT !.pc = "done",
                       !.out = IF ok THEN "pr_created" ELSE "pr_failed"]
       ELSE WorkflowAfterPull(r1, ok)

\* create_data of create_branch.
CreateRefData(branch_name, sha) == [ref |-> branch_name, sha |-> sha]
\* Mutant: "already exists" (422) is taken as created.
BranchCreated_Lenient(status) == status \in {201, 422}
BranchCreated(status) == status = 201

\* new_commit_data and update_ref_data of commit_files.
NewCommitData(commit_message, new_tree_sha, current_commit_sha) ==
    [message |-> commit_message, tree |-> new_tree_sha,
     parents |-> <<current_commit_sha>>]
\* Mutant: the commit is taken as created on any answer.
CommitCreated_AnyAnswer(status) == status # 0
CommitCreated(status) == status = 201
\* Mutant: the ref update is forced.
UpdateRefData_Forced(new_commit_sha) == [sha |-> new_commit_sha, force |-> TRUE]
UpdateRefData(new_commit_sha) == [sha |-> new_commit_sha, force |-> FALSE]
\* Mutant: the ref update is expected to answer 201, as the creations do.
RefUpdated_Created(status) == status = 201
RefUpdated(status) == status = 200

\* Mutant: the entries of the base tree are not carried over.
BaseEntries_Dropped(listing) == <<>>
\* Mutant: the entry is appended without removing the path's earlier entry.
UpdateEntries_AppendOnly(tree_entries, file_path, blob_sha) ==
    Append(tree_entries,
           [path |-> file_path, mode |-> "100644", type |-> "blob", sha |-> blob_sha])
\* _create_tree_with_changes: the base entries kept, and one file's update.
BaseEntries(listing) ==
    LET blobsOnly == SelectSeq(listing, LAMBDA item : item.type = "blob")
    IN [k \in 1..Len(blobsOnly) |->
          [path |-> blobsOnly[k].path, mode |-> blobsOnly[k].mode,
           type |-> "blob", sha |-> blobsOnly[k].sha]]
BlobCreated(status) == status = 201
UpdateEntries(tree_entries, file_path, blob_sha) ==
    Append(SelectSeq(tree_entries, LAMBDA entry : entry.path # file_path),
           [path |-> file_path, mode |-> "100644", type |-> "blob", sha |-> blob_sha])
TreeCreated(status) == status = 201
PullCreated(status) == status = 201

\* ---------------------------------------------------------------- actions
\* Faults drawn per kind of request where processes run concurrently: reads
\* fail by a connection error, object creation by a 5xx answer, and requests
\* that change refs or pull requests also by a lost response.
GetFaults == {"none", "neterr"}
ObjectFaults == {"none", "http5xx"}
RefFaults == {"none", "lost", "http5xx"}
\* File lists handed to commit_files where processes run concurrently.
ShortLists == {fs \in FileLists : Len(fs) <= 1}

\* Working trees where processes run concurrently: clean, or one change.
ShortTrees ==
    { es \in WorkTrees : es = <<>> \/ (Len(es) = 1 /\ es[1].code = <<"?", "?">>
                                       /\ es[1].path = <<"R", "E", "A", "D", "M", "E">>) }

InitialCommitOf(tree) ==
    [message |-> "init", tree |-> tree, parents |-> <<>>, n |-> 0]

Init ==
    /\ configured \in BOOLEAN
    /\ refs = [n \in {"main"} |-> InitialCommitOf(InitialTree)]
    /\ commits = {InitialCommitOf(InitialTree)}
    /\ trees = {InitialTree}
    /\ blobs = {"c0"}
    /\ prs = <<>>
    /\ proc = [p \in Procs |-> InitProc]
    /\ calls = 0

\* A tool function is called: the not-configured guard, then its first await.
Invoke(p, t, branch, base, files, first) ==
    /\ proc[p].pc \in {"idle", "done"}
    /\ calls < MaxCalls
    /\ calls' = calls + 1
    /\ LET r == [InitProc EXCEPT !.tool = t, !.branch_name = branch,
                                 !.base_branch = base, !.files = files,
                                 !.response = proc[p].response]
       IN proc' = [proc EXCEPT ![p] =
                     IF NotConfiguredGuard(t) /\ ~configured
                     THEN [r EXCEPT !.pc = "done", !.out = "not_configured"]
                     ELSE [r EXCEPT !.pc = first]]
    /\ UNCHANGED <<configured, refs, commits, trees, blobs, prs>>

CallCreateBranch(p) ==
    \E branch \in BranchNames, base \in BranchNames :
        Invoke(p, "create_branch", branch, base, <<>>, "cb_getref")

CallCommitFiles(p, lists) ==
    \E branch \in BranchNames, files \in lists :
        Invoke(p, "commit_files", branch, "main", files, "cf_getref")

CallCreatePullRequest(p) ==
    \E branch \in BranchNames :
        Invoke(p, "create_pull_request", branch, "main", <<>>, "pr_post")

\* create_complete_pr_workflow calls create_branch(branch_name): base "main".
CallWorkflow(p, lists) ==
    \E branch \in BranchNames, files \in lists :
        Invoke(p, "create_complete_pr_workflow", branch, "main", files, "cb_getref")

CallListBranches(p) == Invoke(p, "list_branches", "main", "main", <<>>, "lb_get")

CallGetCurrentChanges(p) ==
    Invoke(p, "get_current_changes", "main", "main", <<>>, "gc_config")

CallGetRepositoryStatus(p) ==
    Invoke(p, "get_repository_status", "main", "main", <<>>, "rs_repo")

\* validate_files_exist: os.path.exists per file, no guard and no await.
ValidateFilesExist(p, lists) ==
    /\ proc[p].pc \in {"idle", "done"}
    /\ calls < MaxCalls
    /\ calls' = calls + 1
    /\ \E files \in lists, present \in SUBSET FilePaths :
         LET missing_files == SelectSeq(files, LAMBDA f : f \notin present)
         IN proc' = [proc EXCEPT ![p] =
                       [InitProc EXCEPT !.tool = "validate_files_exist",
                                        !.files = files, !.pc = "done",
                                        !.response = proc[p].response,
                                        !.out = IF missing_files # <<>>
                                                THEN "files_missing"
                                                ELSE "files_exist"]]
    /\ UNCHANGED <<configured, refs, commits, trees, blobs, prs>>

\* create_branch: GET git/ref/heads/{base_branch}
CbGetRef(p, F) ==
    /\ proc[p].pc = "cb_getref"
    /\ \E fault \in F :
         LET r == proc[p]
             seen == ClientSees(fault, RemoteGetRef(r.base_branch))
             r1 == Logged(r, Req("GET", "git/ref/heads", <<>>, seen.status))
         IN proc' = [proc EXCEPT ![p] =
                       IF RaisesForStatus(seen.status)
                       THEN ExceptException(TRUE, r1, ReturnCreateBranch(r1, FALSE))
                       ELSE [r1 EXCEPT !.sha = seen.val, !.pc = "cb_postref"]]
    /\ UNCHANGED <<configured, refs, commits, trees, blobs, prs, calls>>

\* Mutant: when the ref already exists, create_branch resets it with a forced
\* PATCH to the sha it read from the base branch.
CbPostRef_Upsert(p, F) ==
    /\ proc[p].pc = "cb_postref"
    /\ \E fault \in F :
         LET r == proc[p]
             create_data == CreateRefData(r.branch_name, r.sha)
             answer == RemoteCreateRef(create_data)
             did == ServiceAnswer(fault, answer)
             seen == ClientSees(fault, answer)
             r1 == Logged(r, Req("POST", "git/refs", create_data, seen.status))
         IN /\ refs' = IF did.status \in {201, 422} /\ create_data.sha \in commits
                       THEN SetRef(create_data.ref, create_data.sha)
                       ELSE refs
            /\ proc' = [proc EXCEPT ![p] =
                          ExceptException(seen.status = 0, r1,
                              ReturnCreateBranch(r1, seen.status \in {201, 422}))]
    /\ UNCHANGED <<configured, commits, trees, blobs, prs, calls>>

\* create_branch: POST git/refs
CbPostRef(p, F) ==
    /\ proc[p].pc = "cb_postref"
    /\ \E fault \in F :
         LET r == proc[p]
             create_data == CreateRefData(r.branch_name, r.sha)
             answer == RemoteCreateRef(create_data)
             did == ServiceAnswer(fault, answer)
             seen == ClientSees(fault, answer)
             r1 == Logged(r, Req("POST", "git/refs", create_data, seen.status))
         IN /\ refs' = IF did.status = 201 THEN SetRef(create_data.ref, create_data.sha)
                       ELSE refs
            /\ proc' = [proc EXCEPT ![p] =
                          ExceptException(seen.status = 0, r1,
                              ReturnCreateBranch(r1, BranchCreated(seen.status)))]
    /\ UNCHANGED <<configured, commits, trees, blobs, prs, calls>>

\* commit_files: GET git/refs/heads/{branch_name}
CfGetRef(p, F) ==
    /\ proc[p].pc = "cf_getref"
    /\ \E fault \in F :
         LET r == proc[p]
             seen == ClientSees(fault, RemoteGetRef(r.branch_name))
             r1 == Logged(r, Req("GET", "git/refs/heads", <<>>, seen.status))
         IN proc' = [proc EXCEPT ![p] =
                       IF RaisesForStatus(seen.status)
                       THEN ExceptException(TRUE, r1, ReturnCommitFiles(r1, FALSE))
                       ELSE [r1 EXCEPT !.current_commit_sha = seen.val,
                                       !.pc = "cf_getcommit"]]
    /\ UNCHANGED <<configured, refs, commits, trees, blobs, prs, calls>>

\* commit_files: GET git/commits/{current_commit_sha}
CfGetCommit(p, F) ==
    /\ proc[p].pc = "cf_getcommit"
    /\ \E fault \in F :
         LET r == proc[p]
             seen == ClientSees(fault, RemoteGetCommit(r.current_commit_sha))
             r1 == Logged(r, Req("GET", "git/commits", <<>>, seen.status))
         IN proc' = [proc EXCEPT ![p] =
                       IF RaisesForStatus(seen.status)
                       THEN ExceptException(TRUE, r1, ReturnCommitFiles(r1, FALSE))
                       ELSE [r1 EXCEPT !.current_tree_sha = seen.val,
                                       !.pc = "ct_gettree"]]
    /\ UNCHANGED <<configured, refs, commits, trees, blobs, prs, calls>>

\* _create_tree_with_changes: the project directory lookup (its failure is
\* swallowed; it only selects the directory the files are read from), then
\* GET git/trees/{base_tree_sha}?recursive=1 and the base entries.
CtGetTree(p, F) ==
    /\ proc[p].pc = "ct_gettree"
    /\ \E fault \in F :
         LET r == proc[p]
             seen == ClientSees(fault, RemoteGetTree(r.current_tree_sha))
             r1 == Logged(r, Req("GET", "git/trees", <<>>, seen.status))
         IN proc' = [proc EXCEPT ![p] =
                       IF RaisesForStatus(seen.status)
                       THEN ExceptException(TRUE, r1, ReturnCommitFiles(r1, FALSE))
                       ELSE [r1 EXCEPT !.tree_entries = BaseEntries(seen.val),
                                       !.pc = IF r.files = <<>> THEN "ct_posttree"
                                              ELSE "ct_file"]]
    /\ UNCHANGED <<configured, refs, commits, trees, blobs, prs, calls>>

\* _create_tree_with_changes: one iteration of "for file_path in files": the
\* local read (any content, or unreadable), POST git/blobs, the entry update.
CtFile(p, F) ==
    /\ proc[p].pc = "ct_file"
    /\ \E content \in Contents \cup {Unreadable}, fault \in F :
         LET r == proc[p]
             file_path == r.files[r.i]
             read == content # Unreadable
             blob_data == [content |-> Base64Encode(content), encoding |-> "base64"]
             answer == RemoteCreateBlob(blob_data)
             did == ServiceAnswer(fault, answer)
             seen == ClientSees(fault, answer)
             r1 == IF read
                   THEN Logged(r, Req("POST", "git/blobs", blob_data, seen.status))
                   ELSE r
             ok == read /\ BlobCreated(seen.status)
         IN /\ ~read => fault = "none"
            /\ blobs' = IF read /\ did.status = 201 THEN blobs \cup {did.val} ELSE blobs
            /\ proc' = [proc EXCEPT ![p] =
                 ExceptContinue(~read \/ seen.status = 0, r1,
                 [r1 EXCEPT !.tree_entries = IF ok THEN UpdateEntries(@, file_path, seen.val)
                                             ELSE @,
                            !.blob_shas = Append(@, IF ok THEN seen.val ELSE "skipped"),
                            !.i = @ + 1,
                            !.pc = IF r.i = Len(r.files) THEN "ct_posttree"
                                   ELSE "ct_file"])]
    /\ UNCHANGED <<configured, refs, commits, trees, prs, calls>>

\* _create_tree_with_changes: POST git/trees; commit_files returns False on None.
CtPostTree(p, F) ==
    /\ proc[p].pc = "ct_posttree"
    /\ \E fault \in F :
         LET r == proc[p]
             tree_data == [tree |-> r.tree_entries]
             answer == RemoteCreateTree(tree_data)
             did == ServiceAnswer(fault, answer)
             seen == ClientSees(fault, answer)
             r1 == Logged(r, Req("POST", "git/trees", tree_data, seen.status))
         IN /\ trees' = IF did.status = 201 THEN trees \cup {did.val} ELSE trees
            /\ proc' = [proc EXCEPT ![p] =
                 IF TreeCreated(seen.status)
                 THEN [r1 EXCEPT !.new_tree_sha = seen.val, !.pc = "cf_postcommit"]
                 ELSE ExceptException(seen.status = 0, r1, ReturnCommitFiles(r1, FALSE))]
    /\ UNCHANGED <<configured, refs, commits, blobs, prs, calls>>

\* commit_files: POST git/commits
CfPostCommit(p, F) ==
    /\ proc[p].pc = "cf_postcommit"
    /\ \E fault \in F, same \in BOOLEAN :
         LET r == proc[p]
             new_commit_data == NewCommitData(r.commit_message, r.new_tree_sha,
                                              r.current_commit_sha)
             answer == RemoteCreateCommit(new_commit_data, same)
             did == ServiceAnswer(fault, answer)
             seen == ClientSees(fault, answer)
             r1 == Logged(r, Req("POST", "git/commits", new_commit_data, seen.status))
         IN /\ commits' = IF did.status = 201 THEN commits \cup {did.val} ELSE commits
            /\ proc' = [proc EXCEPT ![p] =
                 IF CommitCreated(seen.status)
                 THEN [r1 EXCEPT !.new_commit_sha = seen.val, !.pc = "cf_patchref"]
                 ELSE ExceptException(seen.status = 0, r1, ReturnCommitFiles(r1, FALSE))]
    /\ UNCHANGED <<configured, refs, trees, blobs, prs, calls>>

\* commit_files: PATCH git/refs/heads/{branch_name}
CfPatchRef(p, F) ==
    /\ proc[p].pc = "cf_patchref"
    /\ \E fault \in F :
         LET r == proc[p]
             update_ref_data == UpdateRefData(r.new_commit_sha)
             answer == RemoteUpdateRef(r.branch_name, update_ref_data)
             did == ServiceAnswer(fault, answer)
             seen == ClientSees(fault, answer)
             r1 == Logged(r, Req("PATCH", "git/refs/heads", update_ref_data,
                                 seen.status))
         IN /\ refs' = IF did.status = 200 THEN SetRef(r.branch_name, update_ref_data.sha)
                       ELSE refs
            /\ proc' = [proc EXCEPT ![p] =
                          ExceptException(seen.status = 0, r1,
                              ReturnCommitFiles(r1, RefUpdated(seen.status)))]
    /\ UNCHANGED <<configured, commits, trees, blobs, prs, calls>>

\* create_pull_request: POST pulls
PrPost(p, F) ==
    /\ proc[p].pc = "pr_post"
    /\ \E fault \in F :
         LET r == proc[p]
             pr_data == [title |-> "title", body |-> "", head |-> r.branch_name,
                         base |-> "main"]
             answer == RemoteCreatePull(pr_data)
             did == ServiceAnswer(fault, answer)
             seen == ClientSees(fault, answer)
             r1 == Logged(r, Req("POST", "pulls", pr_data, seen.status))
         IN /\ prs' = IF did.status = 201 THEN Append(prs, pr_data) ELSE prs
            /\ proc' = [proc EXCEPT ![p] =
                          ExceptException(seen.status = 0, r1,
                              ReturnCreatePullRequest(r1, PullCreated(seen.status)))]
    /\ UNCHANGED <<configured, refs, commits, trees, blobs, calls>>

\* list_branches: GET branches
LbGet(p, F) ==
    /\ proc[p].pc = "lb_get"
    /\ \E fault \in F :
         LET r == proc[p]
             seen == ClientSees(fault, Answer(200, DOMAIN refs, {}))
             r1 == Logged(r, Req("GET", "branches", <<>>, seen.status))
         IN proc' = [proc EXCEPT ![p] =
                       ExceptException(RaisesForStatus(seen.status), r1,
                       [r1 EXCEPT !.pc = "done",
                                  !.out = IF RaisesForStatus(seen.status)
                                          THEN "branches_error"
                                          ELSE "branches_listed"])]
    /\ UNCHANGED <<configured, refs, commits, trees, blobs, prs, calls>>

\* get_current_changes: GET localhost:8121/config (failure swallowed), then
\* "git status --porcelain" and the classification of its output.
GcConfig(p, F) ==
    /\ proc[p].pc = "gc_config"
    /\ \E fault \in F :
         LET r == proc[p]
             seen == ClientSees(fault, Answer(200, 0, 0))
             r1 == Logged(r, Req("GET", "localhost:8121/config", <<>>, seen.status))
         IN proc' = [proc EXCEPT ![p] =
                       ExceptException(seen.status = 0, r1,
                                       [r1 EXCEPT !.pc = "gc_status"])]
    /\ UNCHANGED <<configured, refs, commits, trees, blobs, prs, calls>>

\* subprocess.run(["git", "status", "--porcelain"]) raises, exits non-zero or
\* prints the status of the working tree; then the parsing of its output.
GcStatus(p, worktrees) ==
    /\ proc[p].pc = "gc_status"
    /\ \E run \in {"raises", "nonzero", "zero"}, es \in worktrees :
         LET r == proc[p]
             stdout == Porcelain(es)
             files == StatusLines(stdout)
             changed_files == IF files # <<>> /\ files[1] # <<>>
                              THEN ChangedFiles(files) ELSE <<>>
         IN proc' = [proc EXCEPT ![p] =
              IF run = "raises"
              THEN ExceptException(TRUE, r, [r EXCEPT !.pc = "done", !.out = "changes_error"])
              ELSE IF run = "nonzero"
              THEN [r EXCEPT !.pc = "done", !.out = "status_failed"]
              ELSE IF changed_files # <<>>
              THEN [r EXCEPT !.pc = "done", !.out = "changes_detected",
                             !.worktree = es, !.stdout = stdout,
                             !.changed_files = changed_files,
                             !.details = InferDetails(changed_files)]
              ELSE [r EXCEPT !.pc = "done", !.out = "no_changes",
                             !.worktree = es, !.stdout = stdout]]
    /\ UNCHANGED <<configured, refs, commits, trees, blobs, prs, calls>>

\* get_repository_status: GET {base_url}, then GET pulls?state=all&per_page=5
RsRepo(p, F) ==
    /\ proc[p].pc = "rs_repo"
    /\ \E fault \in F :
         LET r == proc[p]
             seen == ClientSees(fault, Answer(200, 0, 0))
             r1 == Logged(r, Req("GET", "", <<>>, seen.status))
         IN proc' = [proc EXCEPT ![p] =
                       IF RaisesForStatus(seen.status)
                       THEN ExceptException(TRUE, r1,
                                [r1 EXCEPT !.pc = "done", !.out = "status_error"])
                       ELSE [r1 EXCEPT !.pc = "rs_pulls"]]
    /\ UNCHANGED <<configured, refs, commits, trees, blobs, prs, calls>>

RsPulls(p, F) ==
    /\ proc[p].pc = "rs_pulls"
    /\ \E fault \in F :
         LET r == proc[p]
             seen == ClientSees(fault, Answer(200, Len(prs), 0))
             r1 == Logged(r, Req("GET", "pulls?state=all&per_page=5", <<>>,
                                 seen.status))
         IN proc' = [proc EXCEPT ![p] =
                       ExceptException(RaisesForStatus(seen.status), r1,
                       [r1 EXCEPT !.pc = "done",
                                  !.out = IF RaisesForStatus(seen.status)
                                          THEN "status_error"
                                          ELSE "status_report"])]
    /\ UNCHANGED <<configured, refs, commits, trees, blobs, prs, calls>>

\* query_endpoint: a query is received and the agent starts running.
QueryReceive(p) ==
    /\ proc[p].pc = "idle"
    /\ proc[p].response = "none"
    /\ proc' = [proc EXCEPT ![p] = [proc[p] EXCEPT !.response = "running"]]
    /\ UNCHANGED <<configured, refs, commits, trees, blobs, prs, calls>>

\* query_endpoint: Runner.run and determine_response_type_with_llm return or
\* raise (awaiting is false while a tool of the agent is running); the
\* endpoint answers with status "success", or "error" from its handler.
QueryRespond(p) ==
    /\ proc[p].pc \in {"idle", "done"}
    /\ proc[p].response = "running"
    /\ \E raises \in BOOLEAN :
         LET r == proc[p]
         IN proc' = [proc EXCEPT ![p] =
                       IF raises
                       THEN ExceptException(TRUE, r, [r EXCEPT !.response = "error"])
                       ELSE [r EXCEPT !.response = "success"]]
    /\ UNCHANGED <<configured, refs, commits, trees, blobs, prs, calls>>

\* Concurrent tool invocations against one repository.
Next ==
    \/ \E p \in Procs : CallCreateBranch(p)
    \/ \E p \in Procs : CallCommitFiles(p, ShortLists)
    \/ \E p \in Procs : CallCreatePullRequest(p)
    \/ \E p \in Procs : CallWorkflow(p, ShortLists)
    \/ \E p \in Procs : CallListBranches(p)
    \/ \E p \in Procs : CallGetCurrentChanges(p)
    \/ \E p \in Procs : CallGetRepositoryStatus(p)
    \/ \E p \in Procs : ValidateFilesExist(p, ShortLists)
    \/ \E p \in Procs : CbGetRef(p, GetFaults)
    \/ \E p \in Procs : CbPostRef(p, RefFaults)
    \/ \E p \in Procs : CfGetRef(p, GetFaults)
    \/ \E p \in Procs : CfGetCommit(p, GetFaults)
    \/ \E p \in Procs : CtGetTree(p, GetFaults)
    \/ \E p \in Procs : CtFile(p, ObjectFaults)
    \/ \E p \in Procs : CtPostTree(p, ObjectFaults)
    \/ \E p \in Procs : CfPostCommit(p, ObjectFaults)
    \/ \E p \in Procs : CfPatchRef(p, RefFaults)
    \/ \E p \in Procs : PrPost(p, RefFaults)
    \/ \E p \in Procs : LbGet(p, GetFaults)
    \/ \E p \in Procs : GcConfig(p, GetFaults)
    \/ \E p \in Procs : GcStatus(p, ShortTrees)
    \/ \E p \in Procs : RsRepo(p, GetFaults)
    \/ \E p \in Procs : RsPulls(p, GetFaults)

Spec == Init /\ [][Next]_vars

\* The tree builder on its own: one call of commit_files, under every fault,
\* with every file list, starting from each of the base trees.
BaseTrees ==
    { t \in SUBSET (InitialTree \cup
                    {[path |-> "n", mode |-> "100644", type |-> "blob", sha |-> "c0"]}) :
        \E e \in t : e.type = "blob" }

InitTree ==
    /\ configured = TRUE
    /\ \E t \in BaseTrees :
         /\ refs = [n \in {"main"} |-> InitialCommitOf(t)]
         /\ commits = {InitialCommitOf(t)}
         /\ trees = {t}
    /\ blobs = {"c0"}
    /\ prs = <<>>
    /\ proc = [p \in Procs |-> InitProc]
    /\ calls = 0

NextTree ==
    \/ (calls = 0 /\ CallCommitFiles("p1", FileLists))
    \/ CfGetRef("p1", AllFaults)
    \/ CfGetCommit("p1", AllFaults)
    \/ CtGetTree("p1", AllFaults)
    \/ CtFile("p1", AllFaults)
    \/ CtPostTree("p1", AllFaults)
    \/ CfPostCommit("p1", AllFaults)
    \/ CfPatchRef("p1", AllFaults)

SpecTree == InitTree /\ [][NextTree]_vars

\* The change detector on its own: one call of get_current_changes, with
\* every status of the working tree.
InitChanges ==
    /\ configured = TRUE
    /\ refs = [n \in {"main"} |-> InitialCommitOf(InitialTree)]
    /\ commits = {InitialCommitOf(InitialTree)}
    /\ trees = {InitialTree}
    /\ blobs = {"c0"}
    /\ prs = <<>>
    /\ proc = [p \in Procs |-> InitProc]
    /\ calls = 0

NextChanges ==
    \/ (calls = 0 /\ CallGetCurrentChanges("p1"))
    \/ GcConfig("p1", AllFaults)
    \/ GcStatus("p1", WorkTrees)

SpecChanges == InitChanges /\ [][NextChanges]_vars

\* One query to the endpoint: the agent calls tools one after the other,
\* every request under every fault, and the endpoint answers.
Running == proc["p1"].response = "running"

NextQuery ==
    \/ QueryReceive("p1")
    \/ QueryRespond("p1")
    \/ (Running /\ CallCreateBranch("p1"))
    \/ (Running /\ CallCommitFiles("p1", ShortLists))
    \/ (Running /\ CallCreatePullRequest("p1"))
    \/ (Running /\ CallWorkflow("p1", ShortLists))
    \/ (Running /\ CallListBranches("p1"))
    \/ (Running /\ CallGetCurrentChanges("p1"))
    \/ (Running /\ CallGetRepositoryStatus("p1"))
    \/ (Running /\ ValidateFilesExist("p1", ShortLists))
    \/ CbGetRef("p1", AllFaults)
    \/ CbPostRef("p1", AllFaults)
    \/ CfGetRef("p1", AllFaults)
    \/ CfGetCommit("p1", AllFaults)
    \/ CtGetTree("p1", AllFaults)
    \/ CtFile("p1", AllFaults)
    \/ CtPostTree("p1", AllFaults)
    \/ CfPostCommit("p1", AllFaults)
    \/ CfPatchRef("p1", AllFaults)
    \/ PrPost("p1", AllFaults)
    \/ LbGet("p1", AllFaults)
    \/ GcConfig("p1", AllFaults)
    \/ GcStatus("p1", ShortTrees)
    \/ RsRepo("p1", AllFaults)
    \/ RsPulls("p1", AllFaults)

SpecQuery == Init /\ [][NextQuery]_vars

\* ----------------------------------------------------------------- claims
Last(seq) == seq[Len(seq)]
HasReq(r, verb, url) ==
    \E k \in 1..Len(r.reqs) : r.reqs[k].verb = verb /\ r.reqs[k].url = url

\* C1: commit_files issues the ref update only after the create-commit request
\* returned 201 with the new commit sha, and returns True only when that ref
\* update returned 200: at the return the branch head is the commit just
\* created, and that commit exists in the remote store.
C1_RefUpdatedAfterCommitCreated ==
    [][\A p \in Procs :
         LET r == proc'[p]
             len == Len(r.reqs)
         IN /\ \A i \in 1..len :
                 r.reqs[i].verb = "PATCH" =>
                   /\ r.reqs[i].body.sha = r.new_commit_sha
                   /\ \E j \in 1..(i - 1) : /\ r.reqs[j].verb = "POST"
                                            /\ r.reqs[j].url = "git/commits"
                                            /\ r.reqs[j].status = 201
            /\ (r.files_committed = "True" /\ proc[p].files_committed # "True") =>
                 /\ Last(r.reqs).verb = "PATCH"
                 /\ Last(r.reqs).status = 200
                 /\ r.new_commit_sha \in commits'
                 /\ r.branch_name \in DOMAIN refs'
                 /\ refs'[r.branch_name] = r.new_commit_sha]_vars

C1_Witness ==
    \E p \in Procs :
        /\ proc[p].tool = "commit_files"
        /\ proc[p].files_committed = "True"
        /\ proc[p].new_commit_sha \in commits
        /\ refs[proc[p].branch_name] = proc[p].new_commit_sha
        /\ proc[p].new_commit_sha # proc[p].current_commit_sha

\* C3: in create_complete_pr_workflow, when branch creation succeeded and the
\* commit step failed, the workflow has returned the commit failure, has issued
\* no create-pull-request call, and the ref created in step 1 still exists.
C3_CommitFailureLeavesBranch ==
    \A p \in Procs :
        LET r == proc[p]
        IN (/\ r.tool = "create_complete_pr_workflow"
            /\ r.branch_created = "True"
            /\ r.files_committed = "False") =>
              /\ r.pc = "done"
              /\ r.out = "commit_failed"
              /\ r.pr_data = "none"
              /\ ~HasReq(r, "POST", "pulls")
              /\ r.branch_name \in DOMAIN refs

C3_Witness ==
    \E p \in Procs :
        /\ proc[p].tool = "create_complete_pr_workflow"
        /\ proc[p].branch_created = "True"
        /\ proc[p].files_committed = "False"
        /\ proc[p].pc = "done"
        /\ proc[p].branch_name \in DOMAIN refs
        /\ HasReq(proc[p], "POST", "git/refs")

\* The step of create_complete_pr_workflow a request belongs to.
StepOf(q) ==
    IF q.url \in {"git/ref/heads", "git/refs"} THEN 1
    ELSE IF q.url = "pulls" THEN 3
    ELSE 2

\* C4: create_complete_pr_workflow runs create-branch, commit-files and
\* create-pull-request in that order, starts a step only after every earlier
\* step returned success, stops at the first failing step, and its failure
\* result names that step.
C4_WorkflowOrder ==
    \A p \in Procs :
        LET r == proc[p]
        IN r.tool = "create_complete_pr_workflow" =>
             /\ \A i, j \in 1..Len(r.reqs) :
                    i < j => StepOf(r.reqs[i]) <= StepOf(r.reqs[j])
             /\ \A i \in 1..Len(r.reqs) :
                    /\ StepOf(r.reqs[i]) >= 2 => r.branch_created = "True"
                    /\ StepOf(r.reqs[i]) = 3 => r.files_committed = "True"
             /\ r.files_committed # "none" => r.branch_created = "True"
             /\ r.pr_data # "none" => r.files_committed = "True"
             /\ r.pc \in {"cf_getref", "cf_getcommit", "ct_gettree", "ct_file",
                          "ct_posttree", "cf_postcommit", "cf_patchref"}
                  => r.branch_created = "True" /\ r.files_committed = "none"
             /\ r.pc = "pr_post" => r.files_committed = "True" /\ r.pr_data = "none"
             /\ (r.pc = "done" /\ r.out # "not_configured") =>
                  /\ r.out = "branch_failed" <=> r.branch_created = "False"
                  /\ r.out = "commit_failed" <=> r.files_committed = "False"
                  /\ r.out = "pr_failed" <=> r.pr_data = "None"
                  /\ r.out = "workflow_success" <=> r.pr_data = "PR"
                  /\ r.out \in {"branch_failed", "commit_failed", "pr_failed",
                                "workflow_success"}

C4_Witness ==
    \E p, q \in Procs :
        /\ proc[p].tool = "create_complete_pr_workflow"
        /\ proc[p].out = "workflow_success"
        /\ HasReq(proc[p], "POST", "git/refs")
        /\ HasReq(proc[p], "PATCH", "git/refs/heads")
        /\ HasReq(proc[p], "POST", "pulls")
        /\ proc[q].tool = "create_complete_pr_workflow"
        /\ proc[q].out = "branch_failed"

\* C5: create_branch with a base branch that does not exist returns False
\* without side effect: the failed lookup ends the call, no create-ref request
\* is issued and the refs are left as they were.
C5_MissingBaseNoSideEffect ==
    [][\A p \in Procs :
         (/\ proc[p].pc = "cb_getref"
          /\ proc'[p] # proc[p]
          /\ proc[p].base_branch \notin DOMAIN refs) =>
            /\ proc'[p].branch_created = "False"
            /\ proc'[p].pc = "done"
            /\ proc'[p].out = "branch_failed"
            /\ ~HasReq(proc'[p], "POST", "git/refs")
            /\ refs' = refs]_vars

C5_Witness ==
    \E p \in Procs :
        /\ proc[p].tool = "create_branch"
        /\ proc[p].base_branch \notin DOMAIN refs
        /\ Len(proc[p].reqs) = 1
        /\ proc[p].reqs[1].url = "git/ref/heads"
        /\ proc[p].reqs[1].status = 404
        /\ proc[p].branch_created = "False"
        /\ proc[p].branch_name \notin DOMAIN refs

\* C6: every ref update of commit_files carries force = false, and when the new
\* commit is not a descendant of the branch head at the time of the update the
\* update is rejected: commit_files returns False and the head is unchanged.
C6_NonFastForwardRejected ==
    [][\A p \in Procs :
         (proc[p].pc = "cf_patchref" /\ proc'[p] # proc[p]) =>
            LET r == proc'[p]
                q == Last(r.reqs)
            IN /\ q.verb = "PATCH"
               /\ q.body.force = FALSE
               /\ (/\ r.branch_name \in DOMAIN refs
                   /\ ~IsAncestor(refs[r.branch_name], r.new_commit_sha)) =>
                     /\ r.files_committed = "False"
                     /\ refs' = refs]_vars

C6_Witness ==
    \E p \in Procs :
        /\ proc[p].files_committed = "False"
        /\ Last(proc[p].reqs).verb = "PATCH"
        /\ Last(proc[p].reqs).status = 422
        /\ proc[p].new_commit_sha \in commits
        /\ proc[p].branch_name \in DOMAIN refs
        /\ ~IsAncestor(refs[proc[p].branch_name], proc[p].new_commit_sha)
        /\ ~IsAncestor(proc[p].new_commit_sha, refs[proc[p].branch_name])

\* Two commit_files calls that resolved the same head of the same branch,
\* created different commits and both asked for the ref update.
Raced(p, q) ==
    /\ p # q
    /\ proc[p].branch_name = proc[q].branch_name
    /\ proc[p].current_commit_sha = proc[q].current_commit_sha
    /\ proc[p].new_commit_sha # proc[q].new_commit_sha
    /\ \A x \in {p, q} : /\ proc[x].files_committed # "none"
                         /\ HasReq(proc[x], "PATCH", "git/refs/heads")
                         /\ Last(proc[x].reqs).status \in {200, 422}

Lost(p) ==
    /\ proc[p].files_committed = "True"
    /\ ~IsAncestor(proc[p].new_commit_sha, refs[proc[p].branch_name])

C8_NotConfiguredShortCircuit ==
    ~configured =>
        \A p \in Procs :
            /\ proc[p].reqs = <<>>
            /\ proc[p].pc \in {"idle", "done"}
            /\ proc[p].pc = "done" =>
                 IF proc[p].tool = "validate_files_exist"
                 THEN proc[p].out \in {"files_exist", "files_missing"}
                 ELSE proc[p].out = "not_configured"

C8_Witness ==
    /\ ~configured
    /\ \E p, q \in Procs :
          /\ proc[p].pc = "done"
          /\ proc[p].tool = "create_complete_pr_workflow"
          /\ proc[p].out = "not_configured"
          /\ proc[q].pc = "done"
          /\ proc[q].tool = "validate_files_exist"
          /\ proc[q].out = "files_missing"

\* C8 (as claimed): with no credential at startup every exposed operation
\* returns the "not configured" result and attempts no network I/O.
C8_EveryToolNotConfigured ==
    ~configured =>
        \A p \in Procs :
            /\ proc[p].reqs = <<>>
            /\ proc[p].pc = "done" => proc[p].out = "not_configured"

\* C9: when create_branch returns True the new ref exists with the sha resolved
\* for the base branch and the base branch's head is unchanged; when a ref of
\* the new name already exists the call returns False and no ref is re-pointed.
C9_BranchCreatedAtBaseHead ==
    [][\A p \in Procs :
         (proc[p].pc = "cb_postref" /\ proc'[p] # proc[p]) =>
            LET r == proc'[p]
            IN /\ r.branch_created = "True" =>
                    /\ r.branch_name \notin DOMAIN refs
                    /\ r.branch_name \in DOMAIN refs'
                    /\ refs'[r.branch_name] = r.sha
                    /\ Last(r.reqs).body = [ref |-> r.branch_name, sha |-> r.sha]
                    /\ r.reqs[1].url = "git/ref/heads" /\ r.reqs[1].status = 200
                    /\ r.base_branch \in DOMAIN refs
                    /\ \A n \in DOMAIN refs : refs'[n] = refs[n]
               /\ r.branch_name \in DOMAIN refs =>
                    /\ r.branch_created = "False"
                    /\ refs' = refs]_vars

C9_Witness ==
    \E p, q \in Procs :
        /\ proc[p].tool = "create_branch"
        /\ proc[p].branch_created = "True"
        /\ refs[proc[p].branch_name] = proc[p].sha
        /\ refs[proc[p].base_branch] = proc[p].sha
        /\ proc[p].branch_name # proc[p].base_branch
        /\ proc[q].tool = "create_branch"
        /\ proc[q].branch_created = "False"
        /\ Last(proc[q].reqs).url = "git/refs"
        /\ Last(proc[q].reqs).status = 422

\* Occurrences of a path among the supplied files processed so far, and those
\* for which a blob was created.
Occurrences(r, path) == { k \in 1..Len(r.blob_shas) : r.files[k] = path }
Created(r, path) == { k \in Occurrences(r, path) : r.blob_shas[k] # "skipped" }
Latest(ks) == CHOOSE k \in ks : \A l \in ks : l <= k
SuppliedPaths(r) == { r.files[k] : k \in 1..Len(r.files) }
BaseBlobs(r) == { e \in r.current_tree_sha : e.type = "blob" }
NewEntry(path, sha) == [path |-> path, mode |-> "100644", type |-> "blob", sha |-> sha]

\* The entries the tree builder is to produce: for a path with a created blob,
\* the blob of its last such occurrence; every other blob entry of the base.
ExpectedEntries(r) ==
    { NewEntry(path, r.blob_shas[Latest(Created(r, path))]) :
        path \in { f \in SuppliedPaths(r) : Created(r, f) # {} } }
    \cup { e \in BaseBlobs(r) : Created(r, e.path) = {} }

TreeRequests(r) ==
    { k \in 1..Len(r.reqs) : r.reqs[k].verb = "POST" /\ r.reqs[k].url = "git/trees" }

\* C2 (as amended): the entry list submitted to tree creation holds no path
\* twice; a supplied path for which a blob was created has one entry, carrying
\* the blob of its last occurrence for which one was created; a path of the
\* base tree without such an occurrence keeps its blob entry; there is no
\* other entry.
C2_OneEntryPerPathLastWins ==
    \A p \in Procs :
        \A k \in TreeRequests(proc[p]) :
            LET es == proc[p].reqs[k].body.tree
            IN /\ \A i, j \in 1..Len(es) : es[i].path = es[j].path => i = j
               /\ { es[i] : i \in 1..Len(es) } = ExpectedEntries(proc[p])

C2_Witness ==
    \E p \in Procs :
        \E k \in TreeRequests(proc[p]) :
            LET r == proc[p]
                es == r.reqs[k].body.tree
            IN /\ r.files = <<"a", "a">>
               /\ r.blob_shas = <<"c1", "c2">>
               /\ \E e \in BaseBlobs(r) : e.path = "a"
               /\ \E i \in 1..Len(es) : es[i] = NewEntry("a", "c2")
               /\ Len(es) = Cardinality(BaseBlobs(r))

\* C2 (as claimed): the submitted entry list holds exactly one entry for every
\* supplied path and every path of the base tree, and the entry of a supplied
\* path carries the blob of its last occurrence in the list.
C2_LastOccurrenceWins ==
    \A p \in Procs :
        \A k \in TreeRequests(proc[p]) :
            LET r == proc[p]
                es == r.reqs[k].body.tree
            IN /\ \A i, j \in 1..Len(es) : es[i].path = es[j].path => i = j
               /\ \A path \in SuppliedPaths(r) \cup { e.path : e \in BaseBlobs(r) } :
                    \E i \in 1..Len(es) : es[i].path = path
               /\ \A path \in SuppliedPaths(r) :
                    \E i \in 1..Len(es) :
                        /\ es[i].path = path
                        /\ es[i].sha = r.blob_shas[Latest(Occurrences(r, path))]

\* C10 (as amended): when commit_files succeeds the new commit has exactly one
\* parent, the head resolved at the start of the call; its tree holds, for
\* each supplied file for which a blob was created, that blob (of the last
\* such occurrence of the path), plus every blob entry of the parent's tree
\* not so replaced, unchanged, and nothing else: entries of the parent's tree
\* that are not blobs are not carried over, and a supplied file that was
\* skipped leaves the parent's entry in place; the branch ref points at the
\* new commit.
C10_CommitOnTopOfHead ==
    \A p \in Procs :
        LET r == proc[p]
        IN r.files_committed = "True" =>
             /\ r.new_commit_sha \in commits
             /\ r.new_commit_sha.parents = <<r.current_commit_sha>>
             /\ r.current_commit_sha \in commits
             /\ r.current_tree_sha = r.current_commit_sha.tree
             /\ r.new_commit_sha.tree = ExpectedEntries(r)
             /\ r.new_commit_sha.tree \in trees
             /\ refs[r.branch_name] = r.new_commit_sha

C10_Witness ==
    \E p \in Procs :
        LET r == proc[p]
        IN /\ r.files_committed = "True"
           /\ r.files = <<"a", "n">>
           /\ r.blob_shas = <<"c1", "skipped">>
           /\ refs[r.branch_name] = r.new_commit_sha
           /\ \E e \in r.current_tree_sha : e.type = "commit"
           /\ \E e \in r.current_tree_sha : e.path = "d/b" /\ e \in r.new_commit_sha.tree
           /\ NewEntry("a", "c1") \in r.new_commit_sha.tree

\* C10 (as claimed): when commit_files succeeds the new commit has the resolved
\* head as its one parent, its tree holds the newly created blob of each
\* supplied file plus every entry of the parent's tree whose path was not
\* supplied, unchanged, and the branch ref points at the new commit.
C10_TreeOverlaysParent ==
    \A p \in Procs :
        LET r == proc[p]
        IN r.files_committed = "True" =>
             /\ r.new_commit_sha.parents = <<r.current_commit_sha>>
             /\ \A k \in 1..Len(r.files) :
                    \E e \in r.new_commit_sha.tree :
                        /\ e.path = r.files[k]
                        /\ e.sha = r.blob_shas[Latest(Occurrences(r, r.files[k]))]
             /\ \A e \in r.current_commit_sha.tree :
                    e.path \notin SuppliedPaths(r) => e \in r.new_commit_sha.tree
             /\ refs[r.branch_name] = r.new_commit_sha

\* ------------------------------------------------------------------- C12
\* The file name f, lower-cased, has the word w at some position.
Mentions(f, w) ==
    \E k \in 1..Len(f) :
        \A j \in 1..Len(w) : k + j - 1 <= Len(f) /\ Lower(f)[k + j - 1] = w[j]
SomeMentions(fs, w) == \E k \in 1..Len(fs) : Mentions(fs[k], w)
LintFixPy == <<"l", "i", "n", "t", "_", "f", "i", "x", ".", "p", "y">>

Recognised(code) ==
    \/ code = <<"?", "?">>
    \/ \E x \in {"M", "A", "D"} : code = <<x, " ">> \/ code = <<" ", x>>

\* C13: for every porcelain status output, the changed-file list built by
\* get_current_changes contains every file whose status code is modified,
\* added, deleted or untracked exactly once, under the file's own path as it
\* appears in the status output, and contains no other entry.
C13_ChangedFilesExact ==
    \A p \in Procs :
        LET r == proc[p]
            expected == SelectSeq(r.worktree, LAMBDA e : Recognised(e.code))
        IN r.tool = "get_current_changes" /\ r.out \in {"changes_detected", "no_changes"} =>
             /\ \A k \in 1..Len(expected) :
                   Cardinality({j \in 1..Len(r.changed_files) :
                                   r.changed_files[j] = expected[k].path}) = 1
             /\ \A j \in 1..Len(r.changed_files) :
                   \E k \in 1..Len(expected) : r.changed_files[j] = expected[k].path

\* ------------------------------------------------------------------- C11
\* A request of the call was refused (non-2xx) or failed in transport, the
\* auxiliary project-directory lookup and, when blobsToo is false, the
\* per-file blob requests left aside.
RequestFailed(r, blobsToo) ==
    \E k \in 1..Len(r.reqs) :
        /\ r.reqs[k].status \notin {200, 201}
        /\ r.reqs[k].url # "localhost:8121/config"
        /\ blobsToo \/ r.reqs[k].url # "git/blobs"
\* A local I/O failure: a supplied file could not be read.
ReadFailed(r) ==
    \E k \in 1..Len(r.blob_shas) :
        r.blob_shas[k] = "skipped"
        /\ ~\E j \in 1..Len(r.reqs) :
               r.reqs[j].url = "git/blobs" /\ r.reqs[j].status \notin {200, 201}
\* The operation returned its failure value.
FailureResult(r) ==
    CASE r.tool = "create_branch" ->
            r.branch_created = "False" /\ r.out = "branch_failed"
      [] r.tool = "commit_files" ->
            r.files_committed = "False" /\ r.out = "commit_failed"
      [] r.tool = "create_pull_request" ->
            r.pr_data = "None" /\ r.out = "pr_failed"
      [] r.tool = "create_complete_pr_workflow" ->
            \/ r.branch_created = "False" /\ r.out = "branch_failed"
            \/ r.files_committed = "False" /\ r.out = "commit_failed"
            \/ r.pr_data = "None" /\ r.out = "pr_failed"
      [] r.tool = "list_branches" -> r.out = "branches_error"
      [] r.tool = "get_repository_status" -> r.out = "status_error"
      [] r.tool = "get_current_changes" -> r.out \in {"status_failed", "changes_error"}
      [] OTHER -> FALSE

\* C11 (amended): no failure escapes a public operation as an unhandled
\* fault.  A remote rejection (non-2xx) or network failure of any request,
\* other than the project-directory lookup and the per-file blob creation,
\* makes create_branch and commit_files return False, create_pull_request
\* return None and the tool return its failure string; a failed lookup, an
\* unreadable file or a failed blob creation is swallowed and the operation
\* goes on.  The query endpoint answers with status "success" or "error".
C11_NoFailureEscapes ==
    \A p \in Procs :
        LET r == proc[p]
        IN /\ r.out # "raised"
           /\ r.response \in {"none", "running", "success", "error"}
           /\ r.pc = "done" /\ RequestFailed(r, FALSE) => FailureResult(r)
           /\ r.pc = "done" /\ r.out = "changes_error" => r.tool = "get_current_changes"

\* A workflow whose ref update failed in transport returned the commit
\* failure, and the endpoint answered the query.
C11_Witness ==
    LET r == proc["p1"]
    IN /\ r.tool = "create_complete_pr_workflow"
       /\ r.pc = "done"
       /\ r.reqs # <<>>
       /\ Last(r.reqs).url = "git/refs/heads" /\ Last(r.reqs).status = 0
       /\ r.out = "commit_failed"
       /\ r.response = "success"

\* C11 as stated: every remote rejection, network failure or local I/O
\* failure at any step of an operation makes it return its failure value.
C11_EveryFailureFails ==
    \A p \in Procs :
        LET r == proc[p]
        IN r.pc = "done" /\ (RequestFailed(r, TRUE) \/ ReadFailed(r)) => FailureResult(r)

\* ------------------------------------------------------------------- C14
\* The file processed in this step could not be read: the history gets
\* "skipped" and no blob request was sent.
SkippedUnread(r, r2) ==
    /\ r.pc = "ct_file"
    /\ Len(r2.blob_shas) = Len(r.blob_shas) + 1
    /\ Last(r2.blob_shas) = "skipped"
    /\ r2.reqs = r.reqs

\* C14: in _create_tree_with_changes a supplied file that cannot be read is
\* skipped without aborting the build: the entries are left as they were, so
\* the base entry of that path is kept, the loop goes on with the remaining
\* files and then to the tree-creation request, which is sent with an entry
\* list that accounts for every supplied file; the build returns None only
\* when fetching the base tree or creating the new tree failed.
C14_UnreadableFileSkipped ==
    [][\A p \in Procs :
         LET r == proc[p]
             r2 == proc'[p]
         IN /\ SkippedUnread(r, r2) =>
                 /\ r2.tree_entries = r.tree_entries
                 /\ r2.i = r.i + 1
                 /\ r2.pc = IF r.i < Len(r.files) THEN "ct_file" ELSE "ct_posttree"
            /\ r.pc = "ct_file" => r2.pc \in {"ct_file", "ct_posttree"}
            /\ r.pc = "ct_posttree" /\ r2.pc # "ct_posttree" =>
                 /\ Len(r2.blob_shas) = Len(r2.files)
                 /\ Last(r2.reqs).verb = "POST" /\ Last(r2.reqs).url = "git/trees"
                 /\ Last(r2.reqs).body.tree = r.tree_entries
            /\ r.pc \in {"ct_gettree", "ct_file", "ct_posttree"} /\ r2.pc = "done" =>
                 /\ r2.files_committed = "False"
                 /\ Last(r2.reqs).url = "git/trees"
                 /\ Last(r2.reqs).status \notin {200, 201}
       ]_vars

\* Of two supplied files the first, present in the base tree, could not be
\* read and the second got its blob: the tree was created from the base entry
\* of the first and the new entry of the second.
C14_Witness ==
    LET r == proc["p1"]
    IN /\ r.files = <<"a", "n">>
       /\ r.blob_shas = <<"skipped", "c1">>
       /\ ~\E k \in 1..Len(r.reqs) :
              r.reqs[k].url = "git/blobs" /\ r.reqs[k].status \notin {200, 201}
       /\ r.reqs # <<>>
       /\ Last(r.reqs).url = "git/trees" /\ Last(r.reqs).verb = "POST"
       /\ Last(r.reqs).status = 201
       /\ \E k \in 1..Len(Last(r.reqs).body.tree) :
              Last(r.reqs).body.tree[k] =
                 [path |-> "a", mode |-> "100755", type |-> "blob", sha |-> "c0"]
       /\ \E k \in 1..Len(Last(r.reqs).body.tree) :
              Last(r.reqs).body.tree[k] =
                 [path |-> "n", mode |-> "100644", type |-> "blob", sha |-> "c1"]

\* ------------------------------------------------------------------- C15
\* Process p takes this step from program position pc.
StepsFrom(p, pcs) == proc[p].pc \in pcs /\ proc'[p] # proc[p]

\* C15: a branch ref is created only by create_branch, is re-pointed only by
\* commit_files, and is never deleted: create_pull_request, list_branches,
\* get_repository_status and get_current_changes leave every ref unchanged,
\* and create_branch leaves every already-existing ref unchanged.
C15_RefFrame ==
    [][/\ \A n \in DOMAIN refs : n \in DOMAIN refs'
       /\ \A n \in DOMAIN refs' \ DOMAIN refs :
             \E p \in Procs : /\ StepsFrom(p, {"cb_postref"})
                              /\ n = proc[p].branch_name
                              /\ refs'[n] = proc[p].sha
       /\ \A n \in DOMAIN refs :
             refs'[n] # refs[n] =>
                \E p \in Procs : /\ StepsFrom(p, {"cf_patchref"})
                                 /\ n = proc[p].branch_name
                                 /\ refs'[n] = proc[p].new_commit_sha
       /\ \A p \in Procs :
             StepsFrom(p, {"idle", "done", "cb_getref", "cf_getref", "cf_getcommit",
                           "ct_gettree", "ct_file", "ct_posttree", "cf_postcommit",
                           "pr_post", "lb_get", "gc_config", "gc_status",
                           "rs_repo", "rs_pulls"}) => refs' = refs
      ]_vars

\* A branch has been created and the base branch has been re-pointed.
C15_Witness ==
    /\ "feat" \in DOMAIN refs
    /\ refs["main"].parents # <<>>

\* ------------------------------------------------------------------- C16
\* The head every branch had before the call: the base commit on "main".
HeadsBefore == [n \in {"main"} |-> CHOOSE c \in commits : c.parents = <<>>]
\* The ref update was sent and its response never arrived.
UpdateUnanswered(r) ==
    /\ r.reqs # <<>>
    /\ Last(r.reqs).verb = "PATCH"
    /\ Last(r.reqs).status = 0

\* C16 (amended): whenever commit_files returns False, the head of the target
\* branch is the same as it was before the call (no other actor updating it),
\* unless the failure was a network error on the ref-update request itself:
\* the service may have applied that update before the connection failed, and
\* then the head is the new commit although the call returned False.
C16_FailedCommitKeepsHead ==
    LET r == proc["p1"]
    IN r.tool = "commit_files" /\ r.files_committed = "False" =>
         \/ refs = HeadsBefore
         \/ UpdateUnanswered(r) /\ refs = SetRef(r.branch_name, r.new_commit_sha)

\* The ref update was refused by the service: the call returned False and the
\* head is the one before the call.
C16_Witness ==
    LET r == proc["p1"]
    IN /\ r.files_committed = "False"
       /\ r.reqs # <<>>
       /\ Last(r.reqs).verb = "PATCH" /\ Last(r.reqs).status = 500
       /\ refs = HeadsBefore

\* C16 as stated: whenever commit_files returns False, the head of the target
\* branch is the same as it was before the call.
C16_FalseMeansHeadUnchanged ==
    LET r == proc["p1"]
    IN r.tool = "commit_files" /\ r.files_committed = "False" => refs = HeadsBefore

\* ------------------------------------------------------------------- C17
\* Two runs of create_complete_pr_workflow with the same new branch name.
SameNewBranch(p, q) ==
    /\ p # q
    /\ proc[p].tool = "create_complete_pr_workflow"
    /\ proc[q].tool = "create_complete_pr_workflow"
    /\ proc[p].branch_name = proc[q].branch_name
    /\ proc[p].branch_name # "main"

\* C17: of two create_complete_pr_workflow runs with the same new branch name
\* at most one gets past the branch-creation step: the create-ref request of
\* the other is rejected because the ref exists, and that run returns the
\* branch-creation failure without committing or opening a pull request.
C17_OneWorkflowCreatesBranch ==
    \A p, q \in Procs :
        SameNewBranch(p, q) =>
          /\ ~(proc[p].branch_created = "True" /\ proc[q].branch_created = "True")
          /\ proc[p].branch_created = "True" /\ HasReq(proc[q], "POST", "git/refs") =>
                /\ Last(proc[q].reqs).url = "git/refs"
                /\ Last(proc[q].reqs).status \in {422, 500, 0}
                /\ proc[q].pc = "done"
                /\ proc[q].out = "branch_failed"
                /\ proc[q].files_committed = "none"
                /\ proc[q].pr_data = "none"

\* Both runs read the base head before either created the ref; the first
\* created it, the second was rejected with 422 and returned the failure.
C17_Witness ==
    /\ SameNewBranch("p1", "p2")
    /\ proc["p1"].branch_created = "True"
    /\ proc["p2"].branch_created = "False"
    /\ Len(proc["p2"].reqs) = 2
    /\ Last(proc["p2"].reqs).url = "git/refs" /\ Last(proc["p2"].reqs).status = 422
    /\ proc["p2"].out = "branch_failed"
    /\ proc["p1"].pc # "done"

====
